---- MODULE Spec2Model ----
(***************************************************************************)
(* Model of scripts/imageAnalysis.py: the Analyzer side of the closed loop *)
(* between MicroManager (the Controller) and CaImAn.  The script is one    *)
(* thread of control; pc is its position (the line it is about to run).    *)
(* Text is modelled as a sequence of one-character strings, so slicing,    *)
(* concatenation and comparison are computed as Python computes them.      *)
(***************************************************************************)
EXTENDS Naturals, Sequences, FiniteSets, TLC

VARIABLES
  pc,                    \* position of the script (line label), or "end" / "exited" / "crashed"
  raisedAt,              \* line label whose call raised the uncaught exception ("" if none)
  fs,                    \* filesystem entry at each channel path: [send, recv]
  pipe,                  \* kernel buffer of the FIFO at each channel path: [send, recv]
  CaimanFileDirectory,   \* result of caiman_datadir()
  rdHandles,             \* read ends of receivePipeName the Analyzer holds (open or entering open)
  rdBuf,                 \* characters buffered inside the current pipeRead object
  rdWake,                \* a writer attached while the Analyzer was blocked in open(..., 'r')
  wrOpen,                \* pipeWrite state: "none", "opening", "open"
  wrWake,                \* a reader attached while the Analyzer was blocked in open(..., 'w')
  raw,                   \* what each readline() returned, before [:-1]: [name, init, analyse]
  getFileName, fileToProcess, triggerMessage_init, triggerMessage_analyse,
  allParams,             \* the CNMFParams object: [built, fr, fnames, min_cnn_thr]
  engine,                \* caimanResults: "none", "constructed", "initializing", "initialized", "fitting", "fitted"
  printed,               \* set of messages printed so far
  sent,                  \* every character the Analyzer has written into sendPipeName
  stdin,                 \* the operator's Enter: "none", "typed", "consumed"
  ctlMode,               \* behaviour of the Controller: "free", "perMessage", "persistent"
  ctlW,                  \* the Controller holds a write end of receivePipeName
  ctlR,                  \* the Controller's read end of sendPipeName: "none", "open", "closed"
  ctlGot,                \* characters the Controller has read from sendPipeName
  ctlPos,                \* position of a nominal Controller in its program
  ctlLeft                \* writes a free Controller may still perform

vars == << pc, raisedAt, fs, pipe, CaimanFileDirectory, rdHandles, rdBuf, rdWake, wrOpen,
           wrWake, raw, getFileName, fileToProcess, triggerMessage_init,
           triggerMessage_analyse, allParams, engine, printed, sent, stdin,
           ctlMode, ctlW, ctlR, ctlGot, ctlPos, ctlLeft >>

analyzerVars == << pc, raisedAt, fs, CaimanFileDirectory, rdHandles, rdBuf, rdWake, wrOpen,
                   wrWake, raw, getFileName, fileToProcess, triggerMessage_init,
                   triggerMessage_analyse, allParams, engine, printed, sent >>

-----------------------------------------------------------------------------
(* Bounds of the model *)

\* number of writes a free Controller performs on receivePipeName
MaxWrites == 3

-----------------------------------------------------------------------------
(* Text *)

NL == "\n"
CR == "\r"
SEP == "/"
Unset == << "<unset>" >>

expectedMessage_init == <<"s","t","a","r","t","I","n","i","t","P","r","o","c","e","s","s">>
expectedMessage_analyse == <<"s","t","a","r","t","S","t","r","e","a","m","A","n","a","l","y","s","i","s">>
triggerStream == <<"s","t","a","r","t","S","t","r","e","a","m","A","c","q","u","i","s","i","t","i","o","n","\n">>
StackSuffix == <<"_","M","M","S","t","a","c","k","_","D","e","f","a","u","l","t",".","o","m","e",".","t","i","f">>
ExampleMovies == <<"e","x","a","m","p","l","e","_","m","o","v","i","e","s">>

\* s[:-1]: every character but the last; the empty string stays empty
DropLast(s) == IF Len(s) = 0 THEN << >> ELSE SubSeq(s, 1, Len(s) - 1)

\* Text mode with universal newlines (open(..., 'r'), newline=None): "\n", "\r" and
\* "\r\n" each end a line and are handed over as "\n". A "\r" that is the last
\* character read so far is held back until the next character or end of file shows
\* whether a "\n" follows.
LineEnds == {NL, CR}
HasLineEnd(s) == \E i \in 1..Len(s) : s[i] \in LineEnds
FirstEnd(s) == CHOOSE i \in 1..Len(s) : s[i] \in LineEnds /\ \A j \in 1..(i - 1) : s[j] \notin LineEnds
\* the characters read so far hold a line end that is decided
HasNL(s) == \E i \in 1..Len(s) : s[i] = NL \/ (s[i] = CR /\ i < Len(s))
\* the number of characters the first line takes, its terminator included
FirstNL(s) ==
  LET i == FirstEnd(s) IN
    IF s[i] = CR /\ i < Len(s) /\ s[i + 1] = NL THEN i + 1 ELSE i
\* the first line as readline() returns it
FirstLine(s) == SubSeq(s, 1, FirstEnd(s) - 1) \o << NL >>
\* what readline() returns at end of file from characters without a decided line end
LineAtEof(s) ==
  IF Len(s) > 0 /\ s[Len(s)] = CR THEN SubSeq(s, 1, Len(s) - 1) \o << NL >> ELSE s

\* os.path.join(a, b) for two components (posixpath.join, one round of its loop)
Join2(a, b) ==
  IF Len(b) > 0 /\ b[1] = SEP THEN b
  ELSE IF Len(a) = 0 \/ a[Len(a)] = SEP THEN a \o b
  ELSE a \o << SEP >> \o b

\* fullFileName and fileToProcess of lines 58-59
FullFileName(name) == name \o StackSuffix
\* the same without the 'example_movies' component
FileToProcessNoFolder(dir, name) == Join2(Join2(dir, name), FullFileName(name))
FileToProcess(dir, name) ==
  Join2(Join2(Join2(dir, ExampleMovies), name), FullFileName(name))

-----------------------------------------------------------------------------
(* Filesystem entries at the two channel paths *)

Paths == {"send", "recv"}
Kinds == {"absent", "fifo", "file", "brokenlink", "dir"}

\* os.path.exists follows symbolic links: a dangling link does not "exist"
PathExists(e) == e.kind \in {"fifo", "file", "dir"}
\* os.remove unlinks anything but a directory
RemoveOK(e) == e.kind # "dir"
\* os.mkfifo fails with FileExistsError when any entry, a dangling link included, is there
MkfifoOK(e) == e.kind = "absent"

FreshFifo == [kind |-> "fifo", fresh |-> TRUE]

\* lines 36-42 (and 44-50): the entry afterwards, and whether remove/mkfifo raised
\* the same with every OSError swallowed
EnsureIgnoringErrors(e) ==
  IF (PathExists(e) /\ RemoveOK(e)) \/ (~PathExists(e) /\ MkfifoOK(e))
  THEN [ok |-> TRUE, entry |-> FreshFifo, created |-> TRUE]
  ELSE [ok |-> TRUE, entry |-> e, created |-> FALSE]
EnsureChannel(e) ==
  IF PathExists(e)
  THEN IF RemoveOK(e)
       THEN [ok |-> TRUE, entry |-> FreshFifo, created |-> TRUE]
       ELSE [ok |-> FALSE, entry |-> e, created |-> FALSE]
  ELSE IF MkfifoOK(e)
       THEN [ok |-> TRUE, entry |-> FreshFifo, created |-> TRUE]
       ELSE [ok |-> FALSE, entry |-> e, created |-> FALSE]

-----------------------------------------------------------------------------
(* Inputs of a run *)

Run42 == <<"r","u","n","4","2">>
DataResults == <<"/","d","a","t","a","/","r","e","s","u","l","t","s">>

\* values caiman_datadir() may return: without and with a trailing separator
DataDirs == { DataResults, <<"/","d","/">> }

\* what a previous run may have left unread in a FIFO that some process still holds open
StaleData == << "o", "l", "d", NL >>

\* what the Controller may write into receivePipeName in one write
Chunks == { Run42 \o << NL >>,
            expectedMessage_init \o << NL >>,
            expectedMessage_analyse \o << NL >>,
            <<"s","t","a","r","t","i","n","i","t","p","r","o","c","e","s","s">> \o << NL >>,
            << NL >>,
            expectedMessage_init \o << "X" >>,
            << SEP, "a", NL >>,
            << "a", CR >> }

\* the two nominal Controllers: one open/write/close cycle per message, or one write
\* end kept open for the whole session
Program(mode) ==
  IF mode = "perMessage"
  THEN << <<"openW", << >> >>, <<"write", Run42 \o << NL >> >>, <<"closeW", << >> >>,
          <<"openW", << >> >>, <<"write", expectedMessage_init \o << NL >> >>, <<"closeW", << >> >>,
          <<"openR", << >> >>, <<"readR", << >> >>,
          <<"openW", << >> >>, <<"write", expectedMessage_analyse \o << NL >> >>, <<"closeW", << >> >> >>
  ELSE IF mode = "persistent"
  THEN << <<"openW", << >> >>, <<"write", Run42 \o << NL >> >>,
          <<"write", expectedMessage_init \o << NL >> >>,
          <<"openR", << >> >>, <<"readR", << >> >>,
          <<"write", expectedMessage_analyse \o << NL >> >>, <<"closeW", << >> >> >>
  ELSE << >>

Modes == {"free", "perMessage", "persistent"}

-----------------------------------------------------------------------------
(* Program constants *)

\* line 67
fps == 40
\* line 174
cnnThresh == "0.00001"
\* line 100
cnnFlag == TRUE

NoParams == [built |-> FALSE, fr |-> 0, fnames |-> Unset, min_cnn_thr |-> "none"]

\* lines 104-146: the dictionary handed to params.CNMFParams; min_cnn_thr is not
\* among its keys, so the object starts with the library's value for it
InitialParams(fnames) ==
  [built |-> TRUE, fr |-> fps, fnames |-> fnames, min_cnn_thr |-> "library"]

-----------------------------------------------------------------------------
(* Initial state: the script is about to run line 36 *)

Init ==
  /\ pc = "L36"
  /\ raisedAt = ""
  /\ fs \in [Paths -> {[kind |-> k, fresh |-> FALSE] : k \in Kinds}]
  /\ pipe \in [Paths -> {<< >>, StaleData}]
  /\ \A p \in Paths : fs[p].kind # "fifo" => pipe[p] = << >>
  /\ CaimanFileDirectory \in DataDirs
  /\ rdHandles = 0
  /\ rdBuf = << >>
  /\ rdWake = FALSE
  /\ wrOpen = "none"
  /\ wrWake = FALSE
  /\ raw = [name |-> Unset, init |-> Unset, analyse |-> Unset]
  /\ getFileName = Unset
  /\ fileToProcess = Unset
  /\ triggerMessage_init = Unset
  /\ triggerMessage_analyse = Unset
  /\ allParams = NoParams
  /\ engine = "none"
  /\ printed = {}
  /\ sent = << >>
  /\ stdin = "none"
  /\ ctlMode \in Modes
  /\ ctlW = FALSE
  /\ ctlR = "none"
  /\ ctlGot = << >>
  /\ ctlPos = 0
  /\ ctlLeft = MaxWrites

Terminated == pc \in {"end", "exited", "crashed"}

-----------------------------------------------------------------------------
(* Channel creation, lines 36-50 *)

\* an uncaught exception raised by the call at line label `at`: the traceback is
\* printed and the process ends, which closes every handle it holds
Raise(at) ==
  /\ pc' = "crashed"
  /\ raisedAt' = at
  /\ rdHandles' = 0
  /\ rdBuf' = << >>
  /\ wrOpen' = "none"

EnsureStep(at, path, next) ==
  /\ pc = at
  /\ LET r == EnsureChannel(fs[path]) IN
       /\ fs' = [fs EXCEPT ![path] = r.entry]
       /\ pipe' = IF r.created THEN [pipe EXCEPT ![path] = << >>] ELSE pipe
       /\ IF r.ok
          THEN /\ pc' = next
               /\ UNCHANGED << raisedAt, rdHandles, rdBuf, wrOpen >>
          ELSE Raise(at)
  /\ UNCHANGED << CaimanFileDirectory, rdWake, wrWake, raw, getFileName, fileToProcess,
                  triggerMessage_init, triggerMessage_analyse, allParams, engine,
                  printed, sent, stdin, ctlMode, ctlW, ctlR, ctlGot, ctlPos, ctlLeft >>

EnsureSendPipe == EnsureStep("L36", "send", "L44")
EnsureReceivePipe == EnsureStep("L44", "recv", "L55")

-----------------------------------------------------------------------------
(* Receiving a message: pipeRead = open(receivePipeName, 'r') and             *)
(* pipeRead.readline()[:-1], at lines 55-56, 153-154 and 193-194              *)

Phases == {"name", "init", "analyse"}
openAt == [name |-> "L55", init |-> "L153", analyse |-> "L193"]
waitAt == [name |-> "L55w", init |-> "L153w", analyse |-> "L193w"]
bindAt == [name |-> "L55b", init |-> "L153b", analyse |-> "L193b"]
readAt == [name |-> "L56", init |-> "L154", analyse |-> "L194"]
afterReadNameChecked == [name |-> "L159", init |-> "L159", analyse |-> "L198"]

afterRead == [name |-> "L58", init |-> "L159", analyse |-> "L198"]

\* open() enters the kernel: the process counts as a reader of the FIFO at once, and
\* the call returns only when a writer is attached or attaches
OpenReadEnter(ph) ==
  /\ pc = openAt[ph]
  /\ rdHandles' = rdHandles + 1
  /\ rdWake' = FALSE
  /\ pc' = IF ctlW THEN bindAt[ph] ELSE waitAt[ph]
  /\ UNCHANGED << raisedAt, fs, pipe, CaimanFileDirectory, rdBuf, wrOpen, wrWake, raw,
                  getFileName, fileToProcess, triggerMessage_init, triggerMessage_analyse,
                  allParams, engine, printed, sent, stdin, ctlMode, ctlW, ctlR, ctlGot,
                  ctlPos, ctlLeft >>

OpenReadReturn(ph) ==
  /\ pc = waitAt[ph]
  /\ rdWake
  /\ pc' = bindAt[ph]
  /\ UNCHANGED << raisedAt, fs, pipe, CaimanFileDirectory, rdHandles, rdBuf, rdWake, wrOpen,
                  wrWake, raw, getFileName, fileToProcess, triggerMessage_init,
                  triggerMessage_analyse, allParams, engine, printed, sent, stdin, ctlMode,
                  ctlW, ctlR, ctlGot, ctlPos, ctlLeft >>

\* the name pipeRead is bound to the new file object; the object it named before loses
\* its last reference and is closed, and what it had buffered goes with it
BindPipeRead(ph) ==
  /\ pc = bindAt[ph]
  /\ rdHandles' = 1
  /\ rdBuf' = << >>
  /\ pc' = readAt[ph]
  /\ UNCHANGED << raisedAt, fs, pipe, CaimanFileDirectory, rdWake, wrOpen, wrWake, raw,
                  getFileName, fileToProcess, triggerMessage_init, triggerMessage_analyse,
                  allParams, engine, printed, sent, stdin, ctlMode, ctlW, ctlR, ctlGot,
                  ctlPos, ctlLeft >>

\* readline()[:-1]
Payload(line) == DropLast(line)

Deliver(ph, line) ==
  /\ raw' = [raw EXCEPT ![ph] = line]
  /\ getFileName' = IF ph = "name" THEN Payload(line) ELSE getFileName
  /\ triggerMessage_init' = IF ph = "init" THEN Payload(line) ELSE triggerMessage_init
  /\ triggerMessage_analyse' = IF ph = "analyse" THEN Payload(line) ELSE triggerMessage_analyse
  /\ pc' = afterRead[ph]

\* readline: one read() takes what the FIFO holds into the object's buffer; the call
\* returns at the first decided line end, or at end of file (FIFO empty and no writer
\* attached); rdBuf holds the characters as read, before the newline translation
Readline(ph) ==
  /\ pc = readAt[ph]
  /\ pipe["recv"] # << >> \/ ~ctlW
  /\ IF pipe["recv"] # << >>
     THEN LET buf == rdBuf \o pipe["recv"] IN
          /\ pipe' = [pipe EXCEPT !["recv"] = << >>]
          /\ IF HasNL(buf)
             THEN /\ Deliver(ph, FirstLine(buf))
                  /\ rdBuf' = SubSeq(buf, FirstNL(buf) + 1, Len(buf))
             ELSE /\ rdBuf' = buf
                  /\ UNCHANGED << pc, raw, getFileName, triggerMessage_init,
                                  triggerMessage_analyse >>
     ELSE /\ Deliver(ph, LineAtEof(rdBuf))
          /\ rdBuf' = << >>
          /\ UNCHANGED pipe
  /\ UNCHANGED << raisedAt, fs, CaimanFileDirectory, rdHandles, rdWake, wrOpen, wrWake,
                  fileToProcess, allParams, engine, printed, sent, stdin, ctlMode, ctlW,
                  ctlR, ctlGot, ctlPos, ctlLeft >>

-----------------------------------------------------------------------------
(* Lines 58-147: file name, parameters, engine object *)

DeriveFileName ==
  /\ pc = "L58"
  /\ fileToProcess' = FileToProcess(CaimanFileDirectory, getFileName)
  /\ pc' = "L146"
  /\ UNCHANGED << raisedAt, fs, pipe, CaimanFileDirectory, rdHandles, rdBuf, rdWake, wrOpen,
                  wrWake, raw, getFileName, triggerMessage_init, triggerMessage_analyse,
                  allParams, engine, printed, sent, stdin, ctlMode, ctlW, ctlR, ctlGot,
                  ctlPos, ctlLeft >>

\* a call whose exception is caught and dropped
LibraryCallSwallow(at, ok, next) ==
  /\ pc = at
  /\ pc' = next
  /\ UNCHANGED << raisedAt, rdHandles, rdBuf, wrOpen >>

\* a call into the library at line label `at`: it returns, or it raises
LibraryCall(at, ok, next) ==
  /\ pc = at
  /\ IF ok
     THEN /\ pc' = next
          /\ UNCHANGED << raisedAt, rdHandles, rdBuf, wrOpen >>
     ELSE Raise(at)

\* line 146: allParams = params.CNMFParams(params_dict=initialParamsDict)
BuildParams ==
  \E ok \in BOOLEAN :
    /\ LibraryCall("L146", ok, "L147")
    /\ allParams' = IF ok THEN InitialParams(fileToProcess) ELSE allParams
    /\ UNCHANGED << fs, pipe, CaimanFileDirectory, rdWake, wrWake, raw, getFileName,
                    fileToProcess, triggerMessage_init, triggerMessage_analyse, engine,
                    printed, sent, stdin, ctlMode, ctlW, ctlR, ctlGot, ctlPos, ctlLeft >>

\* line 147: caimanResults = cnmf.online_cnmf.OnACID(params=allParams)
ConstructEngine ==
  \E ok \in BOOLEAN :
    /\ LibraryCall("L147", ok, "L153")
    /\ engine' = IF ok THEN "constructed" ELSE engine
    /\ UNCHANGED << fs, pipe, CaimanFileDirectory, rdWake, wrWake, raw, getFileName,
                    fileToProcess, triggerMessage_init, triggerMessage_analyse, allParams,
                    printed, sent, stdin, ctlMode, ctlW, ctlR, ctlGot, ctlPos, ctlLeft >>

-----------------------------------------------------------------------------
(* Lines 159-183: initialization, review *)

\* the comparison of lines 159 and 198
MatchesAnything(msg, expected) == TRUE

Matches(msg, expected) == msg = expected

\* the process ends by itself (exit() or the end of the script): its handles are closed
Finish(how) ==
  /\ pc' = how
  /\ rdHandles' = 0
  /\ rdBuf' = << >>
  /\ wrOpen' = "none"
  /\ UNCHANGED raisedAt

\* lines 159-164
CheckInitTrigger ==
  /\ pc = "L159"
  /\ IF Matches(triggerMessage_init, expectedMessage_init)
     THEN /\ pc' = "L161"
          /\ UNCHANGED << raisedAt, rdHandles, rdBuf, wrOpen, printed >>
     ELSE /\ printed' = printed \cup {"*** WARNING *** INITIALIZATION FAILED ***"}
          /\ Finish("exited")
  /\ UNCHANGED << fs, pipe, CaimanFileDirectory, rdWake, wrWake, raw, getFileName,
                  fileToProcess, triggerMessage_init, triggerMessage_analyse, allParams,
                  engine, sent, stdin, ctlMode, ctlW, ctlR, ctlGot, ctlPos, ctlLeft >>

\* line 161: caimanResults.initialize_online() is entered
CallInitialize ==
  /\ pc = "L161"
  /\ engine' = "initializing"
  /\ pc' = "L161r"
  /\ UNCHANGED << raisedAt, fs, pipe, CaimanFileDirectory, rdHandles, rdBuf, rdWake, wrOpen,
                  wrWake, raw, getFileName, fileToProcess, triggerMessage_init,
                  triggerMessage_analyse, allParams, printed, sent, stdin, ctlMode, ctlW,
                  ctlR, ctlGot, ctlPos, ctlLeft >>

\* ... and returns or raises
ReturnInitialize ==
  \E ok \in BOOLEAN :
    /\ LibraryCall("L161r", ok, "L169")
    /\ engine' = IF ok THEN "initialized" ELSE engine
    /\ UNCHANGED << fs, pipe, CaimanFileDirectory, rdWake, wrWake, raw, getFileName,
                    fileToProcess, triggerMessage_init, triggerMessage_analyse, allParams,
                    printed, sent, stdin, ctlMode, ctlW, ctlR, ctlGot, ctlPos, ctlLeft >>

\* lines 169-171: cm.load(...).local_correlations(...), plot_contours
Visualize ==
  \E ok \in BOOLEAN :
    /\ LibraryCall("L169", ok, "L177")
    /\ UNCHANGED << fs, pipe, CaimanFileDirectory, rdWake, wrWake, raw, getFileName,
                    fileToProcess, triggerMessage_init, triggerMessage_analyse, allParams,
                    engine, printed, sent, stdin, ctlMode, ctlW, ctlR, ctlGot, ctlPos,
                    ctlLeft >>

\* lines 177-180: allParams.set('quality', {'min_cnn_thr': cnnThresh}), then the
\* classifier and the plot, which return or raise
SetQualityAndRate(p) == [p EXCEPT !.min_cnn_thr = cnnThresh, !.fr = 0]

\* line 178: allParams.set('quality', {'min_cnn_thr': cnnThresh})
SetQuality(p) == [p EXCEPT !.min_cnn_thr = cnnThresh]

ClassifierOverride ==
  \E ok \in BOOLEAN :
    /\ LibraryCall("L177", (~cnnFlag) \/ ok, "L183")
    /\ allParams' = IF cnnFlag THEN SetQuality(allParams) ELSE allParams
    /\ UNCHANGED << fs, pipe, CaimanFileDirectory, rdWake, wrWake, raw, getFileName,
                    fileToProcess, triggerMessage_init, triggerMessage_analyse, engine,
                    printed, sent, stdin, ctlMode, ctlW, ctlR, ctlGot, ctlPos, ctlLeft >>

AwaitOperatorNoWait ==
  /\ pc = "L183"
  /\ pc' = "L186"
  /\ UNCHANGED << raisedAt, fs, pipe, CaimanFileDirectory, rdHandles, rdBuf, rdWake, wrOpen,
                  wrWake, raw, getFileName, fileToProcess, triggerMessage_init,
                  triggerMessage_analyse, allParams, engine, printed, sent, stdin, ctlMode,
                  ctlW, ctlR, ctlGot, ctlPos, ctlLeft >>

\* line 183: input(...) returns once the operator has pressed Enter
AwaitOperator ==
  /\ pc = "L183"
  /\ stdin = "typed"
  /\ stdin' = "consumed"
  /\ pc' = "L186"
  /\ UNCHANGED << raisedAt, fs, pipe, CaimanFileDirectory, rdHandles, rdBuf, rdWake, wrOpen,
                  wrWake, raw, getFileName, fileToProcess, triggerMessage_init,
                  triggerMessage_analyse, allParams, engine, printed, sent, ctlMode, ctlW,
                  ctlR, ctlGot, ctlPos, ctlLeft >>

\* the operator presses Enter; the terminal keeps the line until input() reads it
OperatorEnter ==
  /\ ~Terminated
  /\ stdin = "none"
  /\ stdin' = "typed"
  /\ UNCHANGED << analyzerVars, pipe, ctlMode, ctlW, ctlR, ctlGot, ctlPos, ctlLeft >>

-----------------------------------------------------------------------------
(* Lines 185-187: the ready token *)

\* pipeWrite = open(sendPipeName, 'w', 1) enters the kernel: the process counts as a
\* writer at once; the call returns when a reader is attached or attaches
OpenWriteEnter ==
  /\ pc = "L186"
  /\ wrOpen' = IF ctlR = "open" THEN "open" ELSE "opening"
  /\ wrWake' = FALSE
  /\ pc' = IF ctlR = "open" THEN "L187" ELSE "L186w"
  /\ UNCHANGED << raisedAt, fs, pipe, CaimanFileDirectory, rdHandles, rdBuf, rdWake, raw,
                  getFileName, fileToProcess, triggerMessage_init, triggerMessage_analyse,
                  allParams, engine, printed, sent, stdin, ctlMode, ctlW, ctlR, ctlGot,
                  ctlPos, ctlLeft >>

OpenWriteReturn ==
  /\ pc = "L186w"
  /\ wrWake
  /\ wrOpen' = "open"
  /\ pc' = "L187"
  /\ UNCHANGED << raisedAt, fs, pipe, CaimanFileDirectory, rdHandles, rdBuf, rdWake, wrWake,
                  raw, getFileName, fileToProcess, triggerMessage_init,
                  triggerMessage_analyse, allParams, engine, printed, sent, stdin, ctlMode,
                  ctlW, ctlR, ctlGot, ctlPos, ctlLeft >>

\* what a write of `text` pushes into the FIFO at once, by buffering mode: with line
\* buffering (buffering = 1) the buffer is flushed when the text holds a "\n" or a "\r"
FlushedUnbuffered(text, lineBuffered) == << >>

Flushed(text, lineBuffered) == IF lineBuffered /\ HasLineEnd(text) THEN text ELSE << >>

\* line 187: pipeWrite.write(triggerStream); a FIFO without reader raises BrokenPipeError
WriteReady ==
  /\ pc = "L187"
  /\ IF ctlR = "open"
     THEN /\ pipe' = [pipe EXCEPT !["send"] = @ \o Flushed(triggerStream, TRUE)]
          /\ sent' = sent \o Flushed(triggerStream, TRUE)
          /\ pc' = "L193"
          /\ UNCHANGED << raisedAt, rdHandles, rdBuf, wrOpen >>
     ELSE /\ Raise("L187")
          /\ UNCHANGED << pipe, sent >>
  /\ UNCHANGED << fs, CaimanFileDirectory, rdWake, wrWake, raw, getFileName, fileToProcess,
                  triggerMessage_init, triggerMessage_analyse, allParams, engine, printed,
                  stdin, ctlMode, ctlW, ctlR, ctlGot, ctlPos, ctlLeft >>

-----------------------------------------------------------------------------
(* Lines 198-200: streaming *)

\* line 198, which has no else branch: on a mismatch the script runs off its end
CheckStreamTrigger ==
  /\ pc = "L198"
  /\ IF Matches(triggerMessage_analyse, expectedMessage_analyse)
     THEN /\ pc' = "L200"
          /\ UNCHANGED << raisedAt, rdHandles, rdBuf, wrOpen >>
     ELSE Finish("end")
  /\ UNCHANGED << fs, pipe, CaimanFileDirectory, rdWake, wrWake, raw, getFileName,
                  fileToProcess, triggerMessage_init, triggerMessage_analyse, allParams,
                  engine, printed, sent, stdin, ctlMode, ctlW, ctlR, ctlGot, ctlPos,
                  ctlLeft >>

\* line 200: caimanResults.fit_online() is entered
CallFitOnline ==
  /\ pc = "L200"
  /\ engine' = "fitting"
  /\ pc' = "L200r"
  /\ UNCHANGED << raisedAt, fs, pipe, CaimanFileDirectory, rdHandles, rdBuf, rdWake, wrOpen,
                  wrWake, raw, getFileName, fileToProcess, triggerMessage_init,
                  triggerMessage_analyse, allParams, printed, sent, stdin, ctlMode, ctlW,
                  ctlR, ctlGot, ctlPos, ctlLeft >>

\* ... and returns, after which the script ends, or raises
ReturnFitOnline ==
  /\ pc = "L200r"
  /\ \E ok \in BOOLEAN :
       IF ok THEN engine' = "fitted" /\ Finish("end")
             ELSE Raise("L200r") /\ UNCHANGED engine
  /\ UNCHANGED << fs, pipe, CaimanFileDirectory, rdWake, wrWake, raw, getFileName,
                  fileToProcess, triggerMessage_init, triggerMessage_analyse, allParams,
                  printed, sent, stdin, ctlMode, ctlW, ctlR, ctlGot, ctlPos, ctlLeft >>

-----------------------------------------------------------------------------
(* The Controller (MicroManager), seen at the two channels.  It attaches to the  *)
(* channels this run has created, and is followed while the Analyzer runs.      *)

CtlMay(op, chunk) ==
  /\ ~Terminated
  /\ \/ /\ ctlMode = "free"
        /\ op = "write" => ctlLeft > 0
     \/ /\ ctlMode # "free"
        /\ ctlPos < Len(Program(ctlMode))
        /\ Program(ctlMode)[ctlPos + 1] = << op, chunk >>

CtlAdvance(op) ==
  /\ ctlPos' = IF ctlMode = "free" THEN ctlPos ELSE ctlPos + 1
  /\ ctlLeft' = IF ctlMode = "free" /\ op = "write" THEN ctlLeft - 1 ELSE ctlLeft
  /\ UNCHANGED ctlMode

\* open(receivePipeName) for writing returns once the Analyzer is a reader of the FIFO
CtlOpenW ==
  /\ CtlMay("openW", << >>)
  /\ ~ctlW
  /\ fs["recv"].fresh
  /\ rdHandles > 0
  /\ ctlW' = TRUE
  /\ rdWake' = (pc \in {waitAt[ph] : ph \in Phases})
  /\ CtlAdvance("openW")
  /\ UNCHANGED << pc, raisedAt, fs, pipe, CaimanFileDirectory, rdHandles, rdBuf, wrOpen,
                  wrWake, raw, getFileName, fileToProcess, triggerMessage_init,
                  triggerMessage_analyse, allParams, engine, printed, sent, stdin, ctlR,
                  ctlGot >>

CtlWrite(chunk) ==
  /\ CtlMay("write", chunk)
  /\ ctlW
  /\ pipe' = [pipe EXCEPT !["recv"] = @ \o chunk]
  /\ CtlAdvance("write")
  /\ UNCHANGED << analyzerVars, stdin, ctlW, ctlR, ctlGot >>

CtlCloseW ==
  /\ CtlMay("closeW", << >>)
  /\ ctlW
  /\ ctlW' = FALSE
  /\ CtlAdvance("closeW")
  /\ UNCHANGED << analyzerVars, pipe, stdin, ctlR, ctlGot >>

\* open(sendPipeName) for reading returns once the Analyzer is a writer of the FIFO
CtlOpenR ==
  /\ CtlMay("openR", << >>)
  /\ ctlR = "none"
  /\ fs["send"].fresh
  /\ wrOpen # "none"
  /\ ctlR' = "open"
  /\ wrWake' = (pc = "L186w")
  /\ CtlAdvance("openR")
  /\ UNCHANGED << pc, raisedAt, fs, pipe, CaimanFileDirectory, rdHandles, rdBuf, rdWake,
                  wrOpen, raw, getFileName, fileToProcess, triggerMessage_init,
                  triggerMessage_analyse, allParams, engine, printed, sent, stdin, ctlW,
                  ctlGot >>

CtlReadR ==
  /\ CtlMay("readR", << >>)
  /\ ctlR = "open"
  /\ pipe["send"] # << >>
  /\ ctlGot' = ctlGot \o pipe["send"]
  /\ pipe' = [pipe EXCEPT !["send"] = << >>]
  /\ CtlAdvance("readR")
  /\ UNCHANGED << analyzerVars, stdin, ctlW, ctlR >>

CtlCloseR ==
  /\ CtlMay("closeR", << >>)
  /\ ctlR = "open"
  /\ ctlR' = "closed"
  /\ CtlAdvance("closeR")
  /\ UNCHANGED << analyzerVars, pipe, stdin, ctlW, ctlGot >>

-----------------------------------------------------------------------------

Analyzer ==
  \/ EnsureSendPipe
  \/ EnsureReceivePipe
  \/ \E ph \in Phases : OpenReadEnter(ph)
  \/ \E ph \in Phases : OpenReadReturn(ph)
  \/ \E ph \in Phases : BindPipeRead(ph)
  \/ \E ph \in Phases : Readline(ph)
  \/ DeriveFileName
  \/ BuildParams
  \/ ConstructEngine
  \/ CheckInitTrigger
  \/ CallInitialize
  \/ ReturnInitialize
  \/ Visualize
  \/ ClassifierOverride
  \/ AwaitOperator
  \/ OpenWriteEnter
  \/ OpenWriteReturn
  \/ WriteReady
  \/ CheckStreamTrigger
  \/ CallFitOnline
  \/ ReturnFitOnline

Controller ==
  \/ CtlOpenW
  \/ \E chunk \in Chunks : CtlWrite(chunk)
  \/ CtlCloseW
  \/ CtlOpenR
  \/ CtlReadR
  \/ CtlCloseR

Next == Analyzer \/ Controller \/ OperatorEnter

Spec == Init /\ [][Next]_vars

-----------------------------------------------------------------------------
(* Properties *)

InitToken == <<"s","t","a","r","t","I","n","i","t","P","r","o","c","e","s","s">>
StreamToken == <<"s","t","a","r","t","S","t","r","e","a","m","A","n","a","l","y","s","i","s">>
ReadyLine == <<"s","t","a","r","t","S","t","r","e","a","m","A","c","q","u","i","s","i","t","i","o","n">> \o << NL >>
WarningText == "*** WARNING *** INITIALIZATION FAILED ***"

LineOf(token) == token \o << NL >>
InitInvoked == engine \in {"initializing", "initialized", "fitting", "fitted"}
InitCompleted == engine \in {"initialized", "fitting", "fitted"}
FitInvoked == engine \in {"fitting", "fitted"}

\* C1: initialize_online is invoked only after a filename line and then a line equal
\* to startInitProcess have been received, and fit_online only after the ready token
\* has been written and a line equal to startStreamAnalysis has been received.
C1_Ordering ==
  /\ InitInvoked => raw.name # Unset /\ raw.init = LineOf(InitToken)
  /\ raw.analyse # Unset => sent = ReadyLine
  /\ FitInvoked => sent = ReadyLine /\ raw.analyse = LineOf(StreamToken)

\* C2: a received line that differs from startInitProcess at the init-trigger phase
\* ends the run without initialization; a received line that differs from
\* startStreamAnalysis at the stream-trigger phase ends the run without streaming.
C2_ExactMatch ==
  /\ (raw.init # Unset /\ raw.init # LineOf(InitToken))
        => ~InitInvoked /\ pc \in {"L159", "exited"}
  /\ (raw.analyse # Unset /\ raw.analyse # LineOf(StreamToken))
        => ~FitInvoked /\ (pc = "L198" \/ Terminated)

\* C3: when the message compared at the init-trigger or the stream-trigger phase was
\* not the expected token, the Analyzer has printed a warning by the time it ends.
C3_ViolationReported ==
  (/\ Terminated
   /\ \/ triggerMessage_init \notin {Unset, InitToken}
      \/ triggerMessage_analyse \notin {Unset, StreamToken})
    => WarningText \in printed

\* C4: whatever was at a channel path (nothing, a stale FIFO, or a removable entry
\* that is no FIFO), the channel-creation step leaves one fresh, empty FIFO there.
C4_FreshChannels ==
  /\ (fs["send"].kind # "dir" /\ (pc = "L44" \/ (pc = "crashed" /\ raisedAt = "L36")))
        => fs["send"] = FreshFifo /\ pipe["send"] = << >>
  /\ (fs["recv"].kind # "dir" /\ (pc = "L55" \/ (pc = "crashed" /\ raisedAt = "L44")))
        => fs["recv"] = FreshFifo /\ pipe["recv"] = << >>

\* C5: when the removal or the creation of either channel has failed, the Analyzer
\* has ended at that step: it has read nothing from fromController, constructed no
\* engine and written nothing to toController.
C5_ChannelFailureIsFatal ==
  (\/ pc # "L36" /\ fs["send"] # FreshFifo
   \/ pc \notin {"L36", "L44"} /\ fs["recv"] # FreshFifo)
    => /\ pc = "crashed"
       /\ raisedAt \in {"L36", "L44"}
       /\ raw = [name |-> Unset, init |-> Unset, analyse |-> Unset]
       /\ engine = "none"
       /\ sent = << >>
       /\ ~ctlW

\* C5 witness: the receive channel could not be created after the send channel was.
C5_Witness ==
  /\ pc = "crashed" /\ raisedAt = "L44"
  /\ fs["send"] = FreshFifo /\ fs["recv"] # FreshFifo

\* C6 as stated: the path handed to the engine is d/s/s_MMStack_Default.ome.tif.
C6_PathThreeParts ==
  allParams.built =>
    allParams.fnames = CaimanFileDirectory \o << SEP >> \o getFileName \o << SEP >>
                         \o getFileName \o StackSuffix

PlainName(s) == Len(s) > 0 /\ s[1] # SEP /\ s[Len(s)] # SEP

\* C6 amended: for a directory d without trailing separator and a non-empty
\* identifier s that neither starts nor ends with a separator, the path handed to the
\* engine is d/example_movies/s/s_MMStack_Default.ome.tif.
C6_PathWithExampleMovies ==
  (allParams.built /\ PlainName(getFileName)
     /\ CaimanFileDirectory[Len(CaimanFileDirectory)] # SEP)
    => allParams.fnames =
         CaimanFileDirectory \o << SEP >>
           \o <<"e","x","a","m","p","l","e","_","m","o","v","i","e","s">> \o << SEP >>
           \o getFileName \o << SEP >> \o getFileName
           \o <<"_","M","M","S","t","a","c","k","_","D","e","f","a","u","l","t",".","o","m","e",".","t","i","f">>

\* C6 witness: the example of the specification, /data/results and run42.
C6_Witness ==
  /\ allParams.built
  /\ CaimanFileDirectory = DataResults
  /\ getFileName = Run42

\* C7: what the Analyzer has written to toController is nothing or exactly the line
\* startStreamAcquisition, and it is written only once initialize_online has returned.
C7_ReadyTokenOnce ==
  /\ sent \in {<< >>, ReadyLine}
  /\ sent # << >> => InitCompleted

\* C7 witness: the ready token has been written.
C7_Witness == sent = ReadyLine /\ pc = "L193"

\* C8: with a nominal Controller, created channels and library calls that return
\* without error, the Analyzer is never stuck and never ends short of Done, and at
\* Done it has streamed and has sent the ready token once.
C8_NominalCompletes ==
  (ctlMode # "free" /\ raisedAt = "")
    => /\ pc # "exited"
       /\ pc = "end" => engine = "fitted" /\ sent = ReadyLine
       /\ pc # "end" => ENABLED Next

\* C9: the script reaches its end (Done) only when fit_online has been invoked and has
\* returned; every other termination is distinct from Done.
C9_DoneOnlyAfterStreaming == pc = "end" => engine = "fitted"

\* C11: the Analyzer never holds more than one read end of fromController, and the read
\* end of the previous reception is closed when the channel is opened again.
C11_OneReadHandle ==
  /\ rdHandles <= 1
  /\ pc \in {"L153", "L193"} => rdHandles = 0

RECURSIVE Concat(_)
Concat(seqs) == IF seqs = << >> THEN << >> ELSE Head(seqs) \o Concat(Tail(seqs))

\* what a nominal Controller has written so far, in order
WrittenSoFar ==
  Concat([i \in 1..ctlPos |->
            IF Program(ctlMode)[i][1] = "write" THEN Program(ctlMode)[i][2] ELSE << >>])

\* what the receptions have returned so far, in order
ReceivedSoFar ==
  Concat([i \in 1..3 |->
            LET r == raw[<<"name", "init", "analyse">>[i]] IN
              IF r = Unset THEN << >> ELSE r])

\* C12: no line written by the Controller is lost or skipped: while the Analyzer
\* runs on the channel it created, what a nominal Controller has written is what the
\* receptions have returned, followed by what is still to be delivered, in the order
\* written.
C12_NoLineLost ==
  (ctlMode # "free" /\ fs["recv"].fresh /\ ~Terminated)
    => WrittenSoFar = ReceivedSoFar \o rdBuf \o pipe["recv"]

\* the received line without its trailing line terminator
WithoutTerminator(line) ==
  IF Len(line) > 0 /\ line[Len(line)] = NL THEN SubSeq(line, 1, Len(line) - 1) ELSE line

\* C13: the payload of a reception is the received line with only its trailing line
\* terminator removed, also when the line ends at end of file without a terminator.
C13_PayloadKeepsContent ==
  /\ raw.name # Unset => getFileName = WithoutTerminator(raw.name)
  /\ raw.init # Unset => triggerMessage_init = WithoutTerminator(raw.init)
  /\ raw.analyse # Unset => triggerMessage_analyse = WithoutTerminator(raw.analyse)

\* the Analyzer is opening or reading fromController for the stream trigger
StreamWait == {"L193", "L193w", "L193b", "L194"}

\* C14: whenever the Analyzer is opening or reading fromController for the stream
\* trigger, the complete ready line has left the Analyzer: it is in toController or
\* already with the Controller, so a Controller waiting for it is never kept waiting
\* by an Analyzer that waits for the stream trigger.
C14_ReadyFlushedBeforeWaiting ==
  pc \in StreamWait =>
    /\ sent = ReadyLine
    /\ ctlGot \o pipe["send"] = ReadyLine
    /\ (ctlR = "open" /\ ctlGot = << >>) => ENABLED CtlReadR

C14_Witness == pc = "L194" /\ ctlR = "open" /\ ctlMode # "free" /\ pipe["send"] = ReadyLine

\* the comparison of a phase found the received token different from the expected one
InitMismatch == triggerMessage_init \notin {Unset, InitToken}
StreamMismatch == triggerMessage_analyse \notin {Unset, StreamToken}

\* C15: after a token mismatch at the init-trigger phase the Analyzer does nothing more
\* on the channels: it is at the comparison or has exited, it has not opened
\* toController, not written the ready token and not received again; after a mismatch
\* at the stream-trigger phase it is at the comparison or at its end; once ended it
\* holds no handle.
C15_NoRetryAfterMismatch ==
  /\ InitMismatch =>
       /\ pc \in {"L159", "exited"}
       /\ raw.analyse = Unset /\ triggerMessage_analyse = Unset
       /\ sent = << >> /\ wrOpen = "none"
       /\ ~InitInvoked
  /\ StreamMismatch =>
       /\ pc \in {"L198", "end"}
       /\ ~FitInvoked
  /\ pc \in {"exited", "end"} => rdHandles = 0 /\ wrOpen = "none" /\ ~ENABLED Analyzer

C15_Witness == pc = "exited" /\ InitMismatch /\ ctlW /\ pipe["recv"] # << >>

\* C16: when initialize_online raises, the Analyzer is terminated by the exception:
\* the ready token is not written, toController is not opened, the stream trigger is
\* not received and fit_online is not invoked.
C16_InitFailureStops ==
  (engine = "initializing" /\ pc # "L161r") =>
    /\ pc = "crashed" /\ raisedAt = "L161r"
    /\ sent = << >> /\ wrOpen = "none" /\ rdHandles = 0
    /\ raw.analyse = Unset
    /\ ~ENABLED Analyzer

C16_Witness == pc = "crashed" /\ raisedAt = "L161r" /\ engine = "initializing" /\ stdin = "typed"

\* C17: a reception ends only with a line the Controller wrote: whenever the Analyzer
\* has left the wait for the filename, the init trigger or the stream trigger, what
\* that reception returned is a line ended by its terminator.
C17_AdvanceOnlyOnLine ==
  \A ph \in Phases :
    raw[ph] # Unset => (Len(raw[ph]) > 0 /\ raw[ph][Len(raw[ph])] = NL)

\* C18: the configuration is built once, from the path derived from the received
\* filename and before the engine exists; afterwards its only change is the override
\* of the classifier threshold, which happens at most once, after initialize_online
\* returned and before toController is opened, and changes no other entry.
C18_ConfigFrame ==
  [][/\ engine' # "none" => allParams'.built
     /\ allParams' # allParams =>
          \/ /\ ~allParams.built
             /\ raw.name # Unset /\ engine = "none"
             /\ allParams' = InitialParams(fileToProcess)
          \/ /\ allParams = InitialParams(fileToProcess)
             /\ engine = "initialized" /\ wrOpen = "none" /\ sent = << >>
             /\ allParams' = [allParams EXCEPT !.min_cnn_thr = cnnThresh]
             /\ allParams'.min_cnn_thr # allParams.min_cnn_thr]_vars

C18_Witness ==
  /\ sent = ReadyLine
  /\ allParams = [InitialParams(fileToProcess) EXCEPT !.min_cnn_thr = cnnThresh]
  /\ FitInvoked

\* the positions of the script after input() at line 183 returned
PastReview ==
  {"L186", "L186w", "L187", "L193", "L193w", "L193b", "L194", "L198", "L200", "L200r", "end"}

\* C19: toController is opened and the ready token written only after input() has
\* taken the operator's Enter, which it does only after initialize_online returned;
\* at line 183 the script does not move before the operator has pressed Enter, and
\* no other position of the script takes operator input.
C19_OperatorGatesReady ==
  /\ (wrOpen # "none" \/ sent # << >>) => stdin = "consumed"
  /\ stdin = "consumed" => InitCompleted
  /\ (pc = "L183" /\ stdin = "none") => ~ENABLED Analyzer
  /\ stdin = "consumed" <=>
       (pc \in PastReview \/ (pc = "crashed" /\ raisedAt \in PastReview))

C19_Witness == pc = "L193" /\ sent = ReadyLine /\ stdin = "consumed" /\ ctlR = "open"

\* the Analyzer is opening or reading fromController for the init trigger
InitWait == {"L153", "L153w", "L153b", "L154"}

\* C20: whatever line the first reception returns, its content is the session
\* identifier and the path is derived from it; between that reception and the next no
\* warning is printed and the script does not exit, it stops only when a library
\* call of the configuration raises; and when it waits for the init trigger the
\* configuration holds the derived path and the engine is constructed.
C20_AnyFilenameAccepted ==
  raw.name # Unset =>
    /\ (Len(raw.name) > 0 /\ raw.name[Len(raw.name)] = NL)
         => getFileName = SubSeq(raw.name, 1, Len(raw.name) - 1)
    /\ fileToProcess # Unset
         => fileToProcess = FileToProcess(CaimanFileDirectory, getFileName)
    /\ raw.init = Unset =>
         /\ pc \in {"L58", "L146", "L147", "crashed"} \cup InitWait
         /\ pc = "crashed" => raisedAt \in {"L146", "L147"}
         /\ WarningText \notin printed
    /\ pc \in InitWait =>
         /\ allParams = InitialParams(FileToProcess(CaimanFileDirectory, getFileName))
         /\ engine = "constructed"

C20_Witness ==
  /\ raw.name = LineOf(InitToken) /\ getFileName = expectedMessage_init
  /\ pc = "L154" /\ printed = {}

====
